---- MODULE Spec2Model ----
(***************************************************************************)
(* The crypto trading pipeline of src/main.py: start_node ->               *)
(* crypto_technical_agent -> crypto_risk_manager ->                        *)
(* portfolio_management_agent -> END, over the shared state.data record.   *)
(*                                                                         *)
(* Floats are modelled as exact rationals or NaN (rounding is ignored).    *)
(* A price series is modelled by what the stages read of it: whether it    *)
(* is empty, how many closes it has, its annualised volatility and the     *)
(* last value of every indicator.                                          *)
(***************************************************************************)
EXTENDS Integers, Sequences, FiniteSets, TLC

VARIABLES wf, pc, data, market, backend, request, llm, trace, probe

vars == <<wf, pc, data, market, backend, request, llm, trace, probe>>

(***************************************************************************)
(* Bounds of the model.                                                    *)
(***************************************************************************)
MaxCloses == 3
MaxQuantity == 1
MaxFailures == 3

(***************************************************************************)
(* Python float arithmetic: a float is NaN or a rational num/den, den > 0. *)
(***************************************************************************)
RECURSIVE GCD(_, _)
GCD(a, b) == IF b = 0 THEN a ELSE GCD(b, a % b)

Abs(n) == IF n < 0 THEN -n ELSE n

NaN == [nan |-> TRUE, num |-> 0, den |-> 1]

Rat(n, d) ==
    LET s == IF d < 0 THEN -1 ELSE 1
        g == GCD(Abs(n), Abs(d))
    IN  [nan |-> FALSE, num |-> (s * n) \div g, den |-> (s * d) \div g]

F(n) == Rat(n, 1)

FMul(a, b) == IF a.nan \/ b.nan THEN NaN ELSE Rat(a.num * b.num, a.den * b.den)

FAdd(a, b) ==
    IF a.nan \/ b.nan THEN NaN ELSE Rat(a.num * b.den + b.num * a.den, a.den * b.den)

FSub(a, b) ==
    IF a.nan \/ b.nan THEN NaN ELSE Rat(a.num * b.den - b.num * a.den, a.den * b.den)

\* a / b for b # 0
FDiv(a, b) == IF a.nan \/ b.nan THEN NaN ELSE Rat(a.num * b.den, a.den * b.num)

\* a < b; every comparison with NaN is false
FLt(a, b) == ~a.nan /\ ~b.nan /\ a.num * b.den < b.num * a.den

FGt(a, b) == FLt(b, a)

FLe(a, b) == ~a.nan /\ ~b.nan /\ a.num * b.den <= b.num * a.den

\* Python's min(a, b) and max(a, b): the first argument unless the second beats it
PyMin(a, b) == IF FLt(b, a) THEN b ELSE a

PyMax(a, b) == IF FGt(b, a) THEN b ELSE a

\* int(x) of a finite float: truncation toward zero
IntTrunc(x) ==
    IF x.num >= 0 THEN x.num \div x.den ELSE -((-x.num) \div x.den)

(***************************************************************************)
(* The request of run_crypto_trading and the market-data collaborator.     *)
(***************************************************************************)
SymbolLists == {<< >>, <<"BTCUSDT">>, <<"BTCUSDT", "ETHUSDT">>}

InitialCapitals == {10000}

Range(s) == {s[i] : i \in DOMAIN s}

timeframes == <<"1h", "4h", "1d">>

primary_timeframe == "1h"

\* the last row of the indicators calculate_crypto_signals derives from a
\* non-empty series of the given timeframe; a series shorter than the
\* lookbacks gives NaN everywhere
LastIndicators(tf) ==
    CASE tf = "1h" -> [rsi |-> F(25), macd |-> F(2), macd_signal |-> F(1),
                       bb_middle |-> F(100), bb_upper |-> F(110),
                       bb_lower |-> F(90), adx |-> F(30)]
      [] tf = "4h" -> [rsi |-> F(75), macd |-> F(1), macd_signal |-> F(2),
                       bb_middle |-> F(100), bb_upper |-> F(110),
                       bb_lower |-> F(90), adx |-> F(20)]
      [] OTHER     -> [rsi |-> NaN, macd |-> NaN, macd_signal |-> NaN,
                       bb_middle |-> NaN, bb_upper |-> NaN,
                       bb_lower |-> NaN, adx |-> NaN]

Volatilities == {F(0), Rat(1, 2)}

WeightedAvgPrices == {F(0), F(100)}

\* the price history the risk stage fetches: fewer than 3 closes carry no
\* volatility of their own, an empty one no market price that is read
Histories ==
    {h \in [closes : 0..MaxCloses, volatility : Volatilities,
            weighted_avg_price : WeightedAvgPrices] :
        /\ (h.closes < 3 => h.volatility = F(0))
        /\ (h.closes = 0 => h.weighted_avg_price = F(0))}

\* what the collaborator returns for one symbol
Feeds == [empty : [Range(timeframes) -> BOOLEAN], history : Histories]

(***************************************************************************)
(* Signal Engine: src/agents/crypto_technicals.py                          *)
(***************************************************************************)
\* the per-timeframe classification of generate_trading_signal
TimeframeAnalysis(tf_signals) ==
    [rsi |-> tf_signals.rsi,
     macd |-> IF FGt(tf_signals.macd, tf_signals.macd_signal)
              THEN "Bullish" ELSE "Bearish",
     bb_position |-> IF FLt(tf_signals.bb_middle, tf_signals.bb_lower) THEN "Oversold"
                     ELSE IF FGt(tf_signals.bb_middle, tf_signals.bb_upper) THEN "Overbought"
                     ELSE "Normal",
     trend_strength |-> IF FGt(tf_signals.adx, F(25)) THEN "Strong" ELSE "Weak",
     adx |-> tf_signals.adx]

Weight_uniform(tf, primary_tf) == F(1)

Weight(tf, primary_tf) == IF tf = primary_tf THEN F(1) ELSE Rat(1, 2)

\* what one timeframe adds to the bullish and to the bearish score
BullishOf(analysis, weight) ==
    FAdd(FAdd(IF FLt(analysis.rsi, F(30)) THEN weight ELSE F(0),
              IF analysis.macd = "Bullish" THEN weight ELSE F(0)),
         IF analysis.bb_position = "Oversold" THEN weight ELSE F(0))

BearishOf(analysis, weight) ==
    FAdd(FAdd(IF ~FLt(analysis.rsi, F(30)) /\ FGt(analysis.rsi, F(70)) THEN weight ELSE F(0),
              IF analysis.macd = "Bullish" THEN F(0) ELSE weight),
         IF analysis.bb_position = "Overbought" THEN weight ELSE F(0))

\* the accumulation loop over the analysed timeframes, in iteration order
RECURSIVE Scores(_, _, _)
Scores(tfs, signals, primary_tf) ==
    IF tfs = << >> THEN [bullish |-> F(0), bearish |-> F(0), total_weight |-> F(0)]
    ELSE LET rest == Scores(Tail(tfs), signals, primary_tf)
             w == Weight(Head(tfs), primary_tf)
             a == TimeframeAnalysis(signals[Head(tfs)])
         IN  [bullish |-> FAdd(BullishOf(a, w), rest.bullish),
              bearish |-> FAdd(BearishOf(a, w), rest.bearish),
              total_weight |-> FAdd(w, rest.total_weight)]

FinalSignal_inclusive(signal_strength) ==
    IF ~FLt(signal_strength, Rat(1, 5))
    THEN [signal |-> "bullish",
          confidence |-> PyMin(F(100), FAdd(FMul(signal_strength, F(50)), F(50)))]
    ELSE IF ~FGt(signal_strength, Rat(-1, 5))
    THEN [signal |-> "bearish",
          confidence |-> PyMin(F(100), FAdd(FMul(FSub(F(0), signal_strength), F(50)), F(50)))]
    ELSE [signal |-> "neutral", confidence |-> F(50)]

\* the final mapping of signal_strength to action and confidence
FinalSignal(signal_strength) ==
    IF FGt(signal_strength, Rat(1, 5))
    THEN [signal |-> "bullish",
          confidence |-> PyMin(F(100), FAdd(FMul(signal_strength, F(50)), F(50)))]
    ELSE IF FLt(signal_strength, Rat(-1, 5))
    THEN [signal |-> "bearish",
          confidence |-> PyMin(F(100), FAdd(FMul(FSub(F(0), signal_strength), F(50)), F(50)))]
    ELSE [signal |-> "neutral", confidence |-> F(50)]

\* the normalised strength of the accumulated scores
SignalStrength(tfs, signals, primary_tf) ==
    LET sc == Scores(tfs, signals, primary_tf)
    IN  FDiv(FSub(sc.bullish, sc.bearish), sc.total_weight)

\* tfs: the keys of the signals dict in insertion order.  A missing primary
\* timeframe is a KeyError at signals[primary_tf].
generate_trading_signal(tfs, signals, primary_tf) ==
    IF primary_tf \notin Range(tfs) THEN [raised |-> TRUE]
    ELSE LET signal_strength == SignalStrength(tfs, signals, primary_tf)
             reasoning == [i \in DOMAIN tfs |->
                             [tf |-> tfs[i]] @@ TimeframeAnalysis(signals[tfs[i]])]
         IN  [raised |-> FALSE,
              value |-> FinalSignal(signal_strength) @@ [reasoning |-> reasoning]]

\* the inner loop for one symbol: the timeframes whose series is not empty
AnalysedTimeframes(feed) == SelectSeq(timeframes, LAMBDA tf : ~feed.empty[tf])

SymbolSignal(feed) ==
    LET tfs == AnalysedTimeframes(feed)
        signals == [tf \in Range(tfs) |-> LastIndicators(tf)]
        r == generate_trading_signal(tfs, signals, primary_timeframe)
    IN  IF r.raised THEN r
        ELSE [raised |-> FALSE, value |-> r.value @@ [timeframes |-> tfs]]

\* the analyst_signals mapping the stage returns
TechnicalSignals(d, technical_analysis) ==
    "crypto_technical_agent" :> technical_analysis

\* the whole stage on state.data d: raised, or the data it returns
crypto_technical_agent(d, mkt) ==
    LET syms == Range(d.symbols)
    IN  IF \E s \in syms : SymbolSignal(mkt[s]).raised THEN [raised |-> TRUE]
        ELSE LET technical_analysis == [s \in syms |-> SymbolSignal(mkt[s]).value]
             IN  [raised |-> FALSE,
                  data |-> [analyst_signals |-> TechnicalSignals(d, technical_analysis)] @@ d]

(***************************************************************************)
(* Risk Engine: src/agents/crypto_risk_manager.py                          *)
(***************************************************************************)
\* std of the log returns, annualised: undefined (NaN) below two returns
calculate_volatility(df) == IF df.closes < 3 THEN NaN ELSE df.volatility

calculate_position_limit_clamped(portfolio_value, volatility, base_risk) ==
    LET risk_adjusted == FDiv(base_risk, FAdd(volatility, Rat(1, 10000)))
    IN  PyMin(FMul(portfolio_value, risk_adjusted), portfolio_value)

calculate_position_limit(portfolio_value, volatility, base_risk) ==
    LET risk_adjusted == FDiv(base_risk, FAdd(volatility, Rat(1, 10000)))
    IN  FMul(portfolio_value, risk_adjusted)

calculate_stop_loss_uncapped(current_price, volatility) ==
    FMul(current_price, FSub(F(1), FMul(volatility, Rat(3, 2))))

calculate_stop_loss(current_price, volatility) ==
    LET stop_loss == FMul(current_price,
                          FSub(F(1), PyMin(FMul(volatility, Rat(3, 2)), Rat(1, 2))))
    IN  PyMax(stop_loss, FMul(current_price, Rat(1, 2)))

calculate_take_profit(current_price, volatility) ==
    FMul(current_price, FAdd(F(1), FMul(volatility, F(2))))

RECURSIVE SumPositions(_, _)
SumPositions(positions, keys) ==
    IF keys = {} THEN F(0)
    ELSE LET k == CHOOSE x \in keys : TRUE
         IN  FAdd(FMul(positions[k].amount, positions[k].avg_price),
                  SumPositions(positions, keys \ {k}))

TotalValue(portfolio) ==
    FAdd(portfolio.cash, SumPositions(portfolio.positions, DOMAIN portfolio.positions))

\* the body of the loop for one symbol whose history is not empty
RiskProfile(portfolio, df) ==
    LET market_data == [weighted_avg_price |-> df.weighted_avg_price]
        volatility == calculate_volatility(df)
        total_value == TotalValue(portfolio)
    IN  [position_limit |-> calculate_position_limit(total_value, volatility, Rat(2, 100)),
         stop_loss |-> calculate_stop_loss(market_data.weighted_avg_price, volatility),
         take_profit |-> calculate_take_profit(market_data.weighted_avg_price, volatility),
         volatility |-> volatility,
         market_data |-> market_data,
         current_price |-> market_data.weighted_avg_price]

\* the data the stage returns: the portfolio is only read
RiskData(d, risk_analysis) ==
    [analyst_signals |-> ("crypto_risk_manager" :> risk_analysis) @@ d.analyst_signals] @@ d

crypto_risk_manager(d, mkt) ==
    LET analysed == {s \in Range(d.symbols) : mkt[s].history.closes # 0}
        risk_analysis == [s \in analysed |-> RiskProfile(d.portfolio, mkt[s].history)]
    IN  [raised |-> FALSE, data |-> RiskData(d, risk_analysis)]

(***************************************************************************)
(* The decision backend and call_llm: src/utils/llm.py                     *)
(***************************************************************************)
Actions == {"buy", "sell", "short", "cover", "hold"}

max_retries == 3

\* a key the backend may invent
ForeignTicker == "DOGEUSDT"

\* decisions as they may appear in the backend's JSON, before validation
RawDecisions ==
    {[action |-> a, quantity |-> F(q), confidence |-> F(50), reasoning |-> "llm"] :
        a \in Actions, q \in -1..MaxQuantity}
    \cup {[action |-> "hold", quantity |-> F(0), confidence |-> c, reasoning |-> "llm"] :
            c \in {F(150), NaN}}
    \cup {[action |-> "liquidate", quantity |-> F(0), confidence |-> F(50), reasoning |-> "llm"],
          [action |-> "buy", quantity |-> Rat(1, 2), confidence |-> F(50), reasoning |-> "llm"]}

ReplyKeySets(tickers) ==
    {Range(tickers),
     Range(tickers) \ (IF tickers = << >> THEN {} ELSE {Head(tickers)}),
     Range(tickers) \cup {ForeignTicker}}

\* the JSON values a reply may carry: "array" is any JSON that is not an
\* object, "object" an object without the decisions field, "decisions" an
\* object with one
JsonValues(tickers) ==
    {[json |-> "array", decisions |-> << >>], [json |-> "object", decisions |-> << >>]}
    \cup {[json |-> "decisions", decisions |-> [k \in ks |-> d]] :
            ks \in ReplyKeySets(tickers), d \in RawDecisions}

WellFormedHold(tickers) ==
    [json |-> "decisions",
     decisions |-> [k \in Range(tickers) |->
                      [action |-> "hold", quantity |-> F(0), confidence |-> F(50),
                       reasoning |-> "llm"]]]

Garbage == [kind |-> "reply", wrap |-> "garbage", value |-> [json |-> "array", decisions |-> << >>]]

\* one invocation of the backend: the model cannot be built, invoke raises,
\* or a reply whose content is plain JSON, JSON in a markdown fence, or no JSON
BackendSteps(tickers) ==
    {[kind |-> k, wrap |-> "garbage", value |-> [json |-> "array", decisions |-> << >>]] :
        k \in {"init_error", "no_model", "invoke_error"}}
    \cup {Garbage}
    \cup {[kind |-> "reply", wrap |-> "plain", value |-> v] : v \in JsonValues(tickers)}
    \cup {[kind |-> "reply", wrap |-> "fenced", value |-> WellFormedHold(tickers)]}

RECURSIVE Repeat(_, _)
Repeat(x, n) == IF n = 0 THEN << >> ELSE <<x>> \o Repeat(x, n - 1)

\* the backends of a run: what successive invocations would answer
Backends(tickers) ==
    {[is_deepseek |-> ds, script |-> <<st>>] :
        ds \in BOOLEAN, st \in BackendSteps(tickers)}
    \cup {[is_deepseek |-> FALSE,
           script |-> Repeat(Garbage, n) \o
                      <<[kind |-> "reply", wrap |-> "plain", value |-> WellFormedHold(tickers)]>>] :
            n \in 1..MaxFailures}

\* json.loads(response.content), or extract_json_from_deepseek_response
ParseContent(step, is_deepseek) ==
    IF step.wrap = "plain" \/ (is_deepseek /\ step.wrap = "fenced")
    THEN [ok |-> TRUE, value |-> step.value]
    ELSE [ok |-> FALSE, value |-> step.value]

\* pydantic's validation of one PortfolioDecision
ValidDecision(raw) ==
    /\ raw.action \in Actions
    /\ ~raw.quantity.nan /\ raw.quantity.den = 1

ValidOutput(value) ==
    /\ value.json = "decisions"
    /\ \A k \in DOMAIN value.decisions : ValidDecision(value.decisions[k])

\* PortfolioManagerOutput(**result) for a result that validates
PortfolioManagerOutput(value) ==
    [k \in DOMAIN value.decisions |->
        [action |-> value.decisions[k].action,
         quantity |-> value.decisions[k].quantity.num,
         confidence |-> value.decisions[k].confidence,
         reasoning |-> value.decisions[k].reasoning]]

NoFactory == [present |-> FALSE, value |-> << >>]

Factory(v) == [present |-> TRUE, value |-> v]

Handler_swallowing(default_factory, clause) ==
    IF default_factory.present
    THEN [raised |-> FALSE, value |-> default_factory.value, outcome |-> clause]
    ELSE [raised |-> FALSE, value |-> << >>, outcome |-> clause]

\* an except clause: the default if a factory was given, else re-raise
Handler(default_factory, clause) ==
    IF default_factory.present
    THEN [raised |-> FALSE, value |-> default_factory.value, outcome |-> clause]
    ELSE [raised |-> TRUE, value |-> << >>, outcome |-> clause]

call_llm_no_outer_except(step, is_deepseek, default_factory) ==
    IF step.kind # "reply" THEN [raised |-> TRUE, value |-> << >>, outcome |-> "outer_except"]
    ELSE LET parsed == ParseContent(step, is_deepseek)
         IN  IF ~parsed.ok THEN Handler(default_factory, "inner_except")
             ELSE IF parsed.value.json = "array"
                  THEN [raised |-> TRUE, value |-> << >>, outcome |-> "outer_except"]
             ELSE IF ~ValidOutput(parsed.value) THEN Handler(default_factory, "inner_except")
             ELSE [raised |-> FALSE, value |-> PortfolioManagerOutput(parsed.value),
                   outcome |-> "model"]

\* one call: the backend is invoked once, whatever max_retries is
call_llm(step, is_deepseek, default_factory) ==
    IF step.kind # "reply" THEN Handler(default_factory, "outer_except")
    ELSE LET parsed == ParseContent(step, is_deepseek)
         IN  IF ~parsed.ok THEN Handler(default_factory, "inner_except")
             ELSE IF parsed.value.json = "array" THEN Handler(default_factory, "outer_except")
             ELSE IF ~ValidOutput(parsed.value) THEN Handler(default_factory, "inner_except")
             ELSE [raised |-> FALSE, value |-> PortfolioManagerOutput(parsed.value),
                   outcome |-> "model"]

(***************************************************************************)
(* Decision Aggregator: src/agents/portfolio_manager.py                    *)
(***************************************************************************)
\* analyst_signals.get(agent, {}).get(symbol, {}) is non-empty
HasEntry(analyst_signals, agent, symbol) ==
    /\ agent \in DOMAIN analyst_signals
    /\ symbol \in DOMAIN analyst_signals[agent]

\* the symbols the loop keeps: both a technical signal and a risk entry
Covered(d) ==
    {s \in Range(d.symbols) :
        /\ HasEntry(d.analyst_signals, "crypto_technical_agent", s)
        /\ HasEntry(d.analyst_signals, "crypto_risk_manager", s)}

\* int(position_limit / price) if price > 0 else 0; int(NaN) is a ValueError
MaxSharesRaises(risk_data) ==
    /\ FGt(risk_data.current_price, F(0))
    /\ FDiv(risk_data.position_limit, risk_data.current_price).nan

MaxShares(risk_data) ==
    IF FGt(risk_data.current_price, F(0))
    THEN IntTrunc(FDiv(risk_data.position_limit, risk_data.current_price))
    ELSE 0

BuildRequest_every_symbol_capped(d) ==
    LET risk == [s \in Covered(d) |-> d.analyst_signals["crypto_risk_manager"][s]]
    IN  IF \E s \in Covered(d) : MaxSharesRaises(risk[s])
        THEN [raised |-> TRUE, signals_by_ticker |-> << >>, current_prices |-> << >>,
              max_shares |-> << >>]
        ELSE [raised |-> FALSE,
              signals_by_ticker |->
                  [s \in Covered(d) |->
                     [technical |-> d.analyst_signals["crypto_technical_agent"][s],
                      risk |-> risk[s]]],
              current_prices |-> [s \in Covered(d) |-> risk[s].current_price],
              max_shares |-> [s \in Range(d.symbols) |->
                                IF s \in Covered(d) THEN MaxShares(risk[s]) ELSE 0]]

\* the loop that prepares the request
BuildRequest(d) ==
    LET risk == [s \in Covered(d) |-> d.analyst_signals["crypto_risk_manager"][s]]
    IN  IF \E s \in Covered(d) : MaxSharesRaises(risk[s])
        THEN [raised |-> TRUE, signals_by_ticker |-> << >>, current_prices |-> << >>,
              max_shares |-> << >>]
        ELSE [raised |-> FALSE,
              signals_by_ticker |->
                  [s \in Covered(d) |->
                     [technical |-> d.analyst_signals["crypto_technical_agent"][s],
                      risk |-> risk[s]]],
              current_prices |-> [s \in Covered(d) |-> risk[s].current_price],
              max_shares |-> [s \in Covered(d) |-> MaxShares(risk[s])]]

DefaultDecision ==
    [action |-> "hold", quantity |-> 0, confidence |-> F(0),
     reasoning |-> "Error in portfolio management, defaulting to hold"]

create_default_portfolio_output_of_signals(tickers, signals_by_ticker) ==
    [t \in DOMAIN signals_by_ticker |-> DefaultDecision]

create_default_portfolio_output(tickers, signals_by_ticker) ==
    [t \in Range(tickers) |-> DefaultDecision]

\* the prompt is built and call_llm is called once with the default factory
generate_trading_decision(tickers, signals_by_ticker, bk) ==
    call_llm(Head(bk.script), bk.is_deepseek,
             Factory(create_default_portfolio_output(tickers, signals_by_ticker)))

DecisionData_executing(d, decisions_dict) ==
    [decisions |-> decisions_dict,
     portfolio |-> [d.portfolio EXCEPT !.positions =
                      [s \in DOMAIN @ |->
                         IF s \in DOMAIN decisions_dict /\ decisions_dict[s].action = "buy"
                         THEN [@[s] EXCEPT !.amount = FAdd(@, F(decisions_dict[s].quantity))]
                         ELSE @[s]]]] @@ d

\* the data the stage returns for the decisions it obtained
DecisionData(d, decisions_dict) == [decisions |-> decisions_dict] @@ d

(***************************************************************************)
(* The workflow: src/main.py                                               *)
(***************************************************************************)
Edge_skipping_risk(node) ==
    CASE node = "start_node" -> "crypto_technical_agent"
      [] node = "crypto_technical_agent" -> "portfolio_management_agent"
      [] node = "crypto_risk_manager" -> "portfolio_management_agent"
      [] OTHER -> "END"

\* the edges of create_crypto_workflow
Edge(node) ==
    CASE node = "start_node" -> "crypto_technical_agent"
      [] node = "crypto_technical_agent" -> "crypto_risk_manager"
      [] node = "crypto_risk_manager" -> "portfolio_management_agent"
      [] OTHER -> "END"

\* the same chain with the two engines exchanged
EdgeSwapped(node) ==
    CASE node = "start_node" -> "crypto_risk_manager"
      [] node = "crypto_risk_manager" -> "crypto_technical_agent"
      [] node = "crypto_technical_agent" -> "portfolio_management_agent"
      [] OTHER -> "END"

Successor(w, node) == IF w = "crypto" THEN Edge(node) ELSE EdgeSwapped(node)

\* the portfolio run_crypto_trading builds
InitialPortfolio(symbols, initial_capital) ==
    [cash |-> F(initial_capital),
     positions |-> [s \in Range(symbols) |-> [amount |-> F(0), avg_price |-> F(0)]]]

InitialData(symbols, initial_capital) ==
    [symbols |-> symbols,
     portfolio |-> InitialPortfolio(symbols, initial_capital),
     analyst_signals |-> << >>]

NoRequest ==
    [raised |-> FALSE, signals_by_ticker |-> << >>, current_prices |-> << >>,
     max_shares |-> << >>]

NoBackend == [is_deepseek |-> FALSE, script |-> << >>]

\* no function is being evaluated on its own
NoProbe == [op |-> "none"]

NoCall == [calls |-> 0, outcome |-> "none", raised |-> FALSE]

InitWith(w) ==
    /\ wf = w
    /\ pc = "start_node"
    /\ \E symbols \in SymbolLists, initial_capital \in InitialCapitals :
          /\ data = InitialData(symbols, initial_capital)
          /\ market \in [Range(symbols) -> Feeds]
    /\ backend = NoBackend
    /\ request = NoRequest
    /\ llm = NoCall
    /\ trace = << >>
    /\ probe = NoProbe

Init == InitWith("crypto")

InitStages == \E w \in {"crypto", "swapped"} : InitWith(w)

\* start: returns the state unchanged
Start ==
    /\ pc = "start_node"
    /\ pc' = Successor(wf, "start_node")
    /\ trace' = Append(trace, "start_node")
    /\ UNCHANGED <<wf, data, market, backend, request, llm, probe>>

TechnicalAgent ==
    /\ pc = "crypto_technical_agent"
    /\ LET r == crypto_technical_agent(data, market)
       IN  IF r.raised
           THEN pc' = "raised" /\ data' = data
           ELSE pc' = Successor(wf, "crypto_technical_agent") /\ data' = r.data
    /\ trace' = Append(trace, "crypto_technical_agent")
    /\ UNCHANGED <<wf, market, backend, request, llm, probe>>

RiskManager ==
    /\ pc = "crypto_risk_manager"
    /\ LET r == crypto_risk_manager(data, market)
       IN  pc' = Successor(wf, "crypto_risk_manager") /\ data' = r.data
    /\ trace' = Append(trace, "crypto_risk_manager")
    /\ UNCHANGED <<wf, market, backend, request, llm, probe>>

PortfolioManagement ==
    /\ pc = "portfolio_management_agent"
    /\ trace' = Append(trace, "portfolio_management_agent")
    /\ LET req == BuildRequest(data)
       IN  /\ request' = req
           /\ IF req.raised
              THEN /\ pc' = "raised"
                   /\ UNCHANGED <<data, backend, llm>>
              ELSE \E bk \in Backends(data.symbols) :
                     LET result == generate_trading_decision(data.symbols,
                                                              req.signals_by_ticker, bk)
                     IN  /\ backend' = bk
                         /\ llm' = [calls |-> 1, outcome |-> result.outcome,
                                     raised |-> result.raised]
                         /\ IF result.raised
                            THEN pc' = "raised" /\ data' = data
                            ELSE /\ pc' = Successor(wf, "portfolio_management_agent")
                                 /\ data' = DecisionData(data, result.value)
    /\ UNCHANGED <<wf, market, probe>>

Next == Start \/ TechnicalAgent \/ RiskManager \/ PortfolioManagement

Spec == Init /\ [][Next]_vars

SpecStages == InitStages /\ [][Next]_vars

(***************************************************************************)
(* The risk formulas on their own: a portfolio, a volatility and a market  *)
(* price are drawn, and the loop body of crypto_risk_manager is applied.   *)
(***************************************************************************)
ProbeVolatilities == {F(0), Rat(1, 100), Rat(1, 10), Rat(1, 3), Rat(1, 2), F(2)}

ProbePrices == {F(0), F(1), F(100), Rat(5, 2)}

ProbePortfolios ==
    {[cash |-> F(c),
      positions |-> ("BTCUSDT" :> [amount |-> F(a), avg_price |-> F(p)])
                    @@ ("ETHUSDT" :> [amount |-> F(1), avg_price |-> F(30)])] :
        c \in {0, 10000}, a \in {0, 2}, p \in {0, 50}}

\* a history long enough for a volatility
ProbeHistories ==
    [closes : {3}, volatility : ProbeVolatilities, weighted_avg_price : ProbePrices]

IdleWith(p) ==
    /\ wf = "crypto"
    /\ pc = "idle"
    /\ data = InitialData(<< >>, 0)
    /\ market = << >>
    /\ backend = NoBackend
    /\ request = NoRequest
    /\ llm = NoCall
    /\ trace = << >>
    /\ probe = p

InitRisk ==
    \E portfolio \in ProbePortfolios, df \in ProbeHistories :
        IdleWith([op |-> "risk_input", portfolio |-> portfolio, df |-> df])

\* one pass of the loop body for the drawn symbol
ApplyRisk ==
    /\ probe.op = "risk_input"
    /\ probe' = [op |-> "risk", portfolio |-> probe.portfolio, df |-> probe.df,
                 profile |-> RiskProfile(probe.portfolio, probe.df)]
    /\ UNCHANGED <<wf, pc, data, market, backend, request, llm, trace>>

NextRisk == ApplyRisk

SpecRisk == InitRisk /\ [][NextRisk]_vars

(***************************************************************************)
(* generate_trading_signal on its own: the analysed timeframes and their   *)
(* last indicator rows are drawn and the function is applied; its final    *)
(* mapping is also applied to drawn strengths.  Each row carries the last  *)
(* close of the series the indicators were computed from.                  *)
(***************************************************************************)
\* BBANDS gives lower <= middle <= upper; the last close may pass a band
ProbeIndicators ==
    {[rsi |-> F(r), macd |-> F(m), macd_signal |-> F(1),
      bb_middle |-> F(100), bb_upper |-> F(110), bb_lower |-> F(90),
      adx |-> F(30), close |-> F(100)] :
        r \in {25, 30, 70, 75}, m \in {0, 1, 2}}
    \cup {[rsi |-> F(30), macd |-> F(m), macd_signal |-> F(1),
           bb_middle |-> F(100), bb_upper |-> F(110), bb_lower |-> F(90),
           adx |-> F(30), close |-> F(c)] :
            m \in {0, 2}, c \in {89, 111}}
    \cup {[rsi |-> NaN, macd |-> NaN, macd_signal |-> NaN,
           bb_middle |-> NaN, bb_upper |-> NaN, bb_lower |-> NaN,
           adx |-> NaN, close |-> F(100)]}

\* the keys of the signals dict: the timeframes whose series was not empty
ProbeTimeframes ==
    {SelectSeq(timeframes, LAMBDA tf : tf \in S) : S \in SUBSET Range(timeframes)}

ProbeStrengths == {Rat(n, 20) : n \in -60..60}

InitSignal ==
    \/ \E tfs \in ProbeTimeframes :
         \E signals \in [Range(tfs) -> ProbeIndicators] :
            IdleWith([op |-> "signal_input", tfs |-> tfs, signals |-> signals])
    \/ \E signal_strength \in ProbeStrengths :
         IdleWith([op |-> "strength_input", signal_strength |-> signal_strength])

\* a call of generate_trading_signal(signals, primary_timeframe)
ApplySignal ==
    /\ probe.op = "signal_input"
    /\ LET r == generate_trading_signal(probe.tfs, probe.signals, primary_timeframe)
       IN  probe' =
             IF r.raised
             THEN [op |-> "signal", raised |-> TRUE, tfs |-> probe.tfs,
                   signals |-> probe.signals]
             ELSE [op |-> "signal", raised |-> FALSE, tfs |-> probe.tfs,
                   signals |-> probe.signals,
                   timeframe_analysis |->
                       [tf \in Range(probe.tfs) |-> TimeframeAnalysis(probe.signals[tf])],
                   scores |-> Scores(probe.tfs, probe.signals, primary_timeframe),
                   signal_strength |->
                       SignalStrength(probe.tfs, probe.signals, primary_timeframe),
                   result |-> r.value]
    /\ UNCHANGED <<wf, pc, data, market, backend, request, llm, trace>>

\* the last step of generate_trading_signal on a given strength
ApplyFinalSignal ==
    /\ probe.op = "strength_input"
    /\ probe' = [op |-> "final", raised |-> FALSE,
                 signal_strength |-> probe.signal_strength,
                 result |-> FinalSignal(probe.signal_strength)]
    /\ UNCHANGED <<wf, pc, data, market, backend, request, llm, trace>>

NextSignal == ApplySignal \/ ApplyFinalSignal

SpecSignal == InitSignal /\ [][NextSignal]_vars

(***************************************************************************)
(* call_llm on its own: one answer of the backend and the default_factory  *)
(* argument, given or left at None, are drawn and the function is called.  *)
(***************************************************************************)
ProbeFactories(tickers) ==
    {NoFactory, Factory(create_default_portfolio_output(tickers, << >>))}

InitLlm ==
    \E tickers \in SymbolLists, is_deepseek \in BOOLEAN :
        \E step \in BackendSteps(tickers), default_factory \in ProbeFactories(tickers) :
            IdleWith([op |-> "llm_input", tickers |-> tickers, step |-> step,
                      is_deepseek |-> is_deepseek, default_factory |-> default_factory])

\* a call of call_llm(prompt, ..., default_factory)
ApplyLlm ==
    /\ probe.op = "llm_input"
    /\ probe' = [op |-> "llm", tickers |-> probe.tickers, step |-> probe.step,
                 is_deepseek |-> probe.is_deepseek,
                 default_factory |-> probe.default_factory,
                 result |-> call_llm(probe.step, probe.is_deepseek, probe.default_factory)]
    /\ UNCHANGED <<wf, pc, data, market, backend, request, llm, trace>>

NextLlm == ApplyLlm

SpecLlm == InitLlm /\ [][NextLlm]_vars

(***************************************************************************)
(* Properties                                                              *)
(***************************************************************************)
AggregatorReturned == pc = "END"

Decisions == data.decisions

\* the backend's first answer is a hard error, does not parse or does not validate
BackendFailed ==
    LET step == Head(backend.script)
    IN  \/ step.kind # "reply"
        \/ ~ParseContent(step, backend.is_deepseek).ok
        \/ ~ValidOutput(step.value)

\* C1: whenever the aggregator has run over symbols that all have a signal
\* and a risk entry, the key set of its decisions is the symbol set, whatever
\* the backend answered.
C1_KeySetEqualsSymbols ==
    (AggregatorReturned /\ data.symbols # << >> /\ Covered(data) = Range(data.symbols))
        => DOMAIN Decisions = Range(data.symbols)

\* C2: when the backend fails, every requested symbol gets the default
\* instruction hold / 0 / 0.
C2_FailureDefaultsEverySymbol ==
    (llm.calls > 0 /\ BackendFailed)
        => /\ AggregatorReturned
           /\ DOMAIN Decisions = Range(data.symbols)
           /\ \A s \in Range(data.symbols) :
                /\ Decisions[s].action = "hold"
                /\ Decisions[s].quantity = 0
                /\ Decisions[s].confidence = F(0)

C2_Witness ==
    /\ AggregatorReturned
    /\ BackendFailed
    /\ Len(data.symbols) = 2
    /\ Covered(data) # Range(data.symbols)
    /\ \A s \in Range(data.symbols) : Decisions[s] = DefaultDecision

IsPortfolioManagerOutput(v) ==
    \A k \in DOMAIN v : v[k].action \in Actions /\ v[k].quantity \in Int

\* C3: with the default factory supplied, call_llm never raises: after every
\* call, whatever the backend step was, the aggregator holds a value of the
\* requested model type.
C3_NeverRaisesWithFactory ==
    llm.calls > 0
        => /\ ~llm.raised
           /\ pc # "raised"
           /\ IsPortfolioManagerOutput(Decisions)

\* the reply was JSON but not an object: the TypeError only the outer clause catches
C3_Witness ==
    /\ AggregatorReturned
    /\ Head(backend.script).kind = "reply"
    /\ Head(backend.script).wrap = "plain"
    /\ Head(backend.script).value.json = "array"
    /\ data.symbols # << >>
    /\ Decisions = [s \in Range(data.symbols) |-> DefaultDecision]

TransientFailure(step) ==
    /\ step.kind = "reply"
    /\ ~ParseContent(step, backend.is_deepseek).ok \/ ~ValidOutput(step.value)

WellFormed(step) ==
    /\ step.kind = "reply"
    /\ ParseContent(step, backend.is_deepseek).ok
    /\ ValidOutput(step.value)

\* C4: a backend that fails transiently fewer than 3 times and then answers
\* well-formed is asked again after each failure and has that answer
\* returned; the default is used only after 3 failed attempts.
C4_RetriesUntilWellFormed ==
    (llm.calls > 0 /\ data.symbols # << >>)
        => \A n \in 0..(max_retries - 1) :
              ( /\ n < Len(backend.script)
                /\ \A i \in 1..n : TransientFailure(backend.script[i])
                /\ WellFormed(backend.script[n + 1]) )
              => /\ llm.calls = n + 1
                 /\ Decisions = PortfolioManagerOutput(backend.script[n + 1].value)

LongPosition(portfolio, s) ==
    IF s \in DOMAIN portfolio.positions /\ FGt(portfolio.positions[s].amount, F(0))
    THEN portfolio.positions[s].amount ELSE F(0)

ShortPosition(portfolio, s) ==
    IF s \in DOMAIN portfolio.positions /\ FLt(portfolio.positions[s].amount, F(0))
    THEN FSub(F(0), portfolio.positions[s].amount) ELSE F(0)

\* C5: no instruction for a symbol of the request exceeds the caps of the
\* trading rules: a buy is at most max_shares of its symbol, a sell at most
\* the long position, a cover at most the short position.
C5_WithinTradingCaps ==
    AggregatorReturned
        => \A s \in DOMAIN Decisions \cap DOMAIN request.max_shares :
              /\ Decisions[s].action = "buy"
                    => Decisions[s].quantity <= request.max_shares[s]
              /\ Decisions[s].action = "sell"
                    => FLe(F(Decisions[s].quantity), LongPosition(data.portfolio, s))
              /\ Decisions[s].action = "cover"
                    => FLe(F(Decisions[s].quantity), ShortPosition(data.portfolio, s))

\* C6: every instruction for a requested symbol has an action of the five,
\* an integer quantity >= 0 and a confidence within [0, 100].
C6_InstructionWellTyped ==
    AggregatorReturned
        => \A s \in DOMAIN Decisions \cap Range(data.symbols) :
              /\ Decisions[s].action \in Actions
              /\ Decisions[s].quantity \in Nat
              /\ FLe(F(0), Decisions[s].confidence)
              /\ FLe(Decisions[s].confidence, F(100))

\* C7: every stage is additive on analyst_signals, in whichever order the
\* two engines are composed: the keys present before it runs are present
\* with the same value after it, and it adds at most its own key.
C7_StagesAdditive ==
    [][ data.symbols # << >> =>
          /\ \A k \in DOMAIN data.analyst_signals :
                /\ k \in DOMAIN data'.analyst_signals
                /\ data'.analyst_signals[k] = data.analyst_signals[k]
          /\ (DOMAIN data'.analyst_signals \ DOMAIN data.analyst_signals) \subseteq {pc}
      ]_vars

TechnicalThenRisk(d, mkt) ==
    LET t == crypto_technical_agent(d, mkt)
    IN  IF t.raised THEN t ELSE crypto_risk_manager(t.data, mkt)

RiskThenTechnical(d, mkt) ==
    crypto_technical_agent(crypto_risk_manager(d, mkt).data, mkt)

\* C8: from the same pipeline state the two engines give the same
\* analyst_signals in either order, holding both stages' entries.
C8_OrderIndependent ==
    (pc = "start_node" /\ data.symbols # << >> /\ ~TechnicalThenRisk(data, market).raised)
        => /\ ~RiskThenTechnical(data, market).raised
           /\ RiskThenTechnical(data, market).data.analyst_signals
                = TechnicalThenRisk(data, market).data.analyst_signals
           /\ DOMAIN RiskThenTechnical(data, market).data.analyst_signals
                = {"crypto_technical_agent", "crypto_risk_manager"}

Count(seq, x) == Cardinality({i \in DOMAIN seq : seq[i] = x})

Before(seq, x, y) ==
    \A j \in DOMAIN seq : seq[j] = y => \E i \in 1..(j - 1) : seq[i] = x

C10_PortfolioReadOnly == [][data'.portfolio = data.portfolio]_vars

C10_Witness ==
    /\ pc = "END"
    /\ \E s \in DOMAIN Decisions :
          Decisions[s].action = "buy" /\ Decisions[s].quantity > 0
    /\ \E c \in InitialCapitals :
          data.portfolio = InitialPortfolio(data.symbols, c)

RiskApplied == probe.op = "risk"

\* C11: for every volatility >= 0 and current_price > 0 the stop loss lies in
\* [0.5 * price, price], is exactly 0.5 * price once 1.5 * volatility >= 0.5,
\* and the take profit is at least the price.
C11_StopLossTakeProfitBounds ==
    (RiskApplied /\ FLe(F(0), probe.df.volatility) /\ FGt(probe.df.weighted_avg_price, F(0)))
        => LET price == probe.df.weighted_avg_price
               vol == probe.df.volatility
               half == Rat(price.num, 2 * price.den)
           IN  /\ FLe(half, probe.profile.stop_loss)
               /\ FLe(probe.profile.stop_loss, price)
               /\ (3 * vol.num >= vol.den) => probe.profile.stop_loss = half
               /\ FLe(price, probe.profile.take_profit)

\* the spec's scenario: price 100, volatility 0.5 gives stop loss 50, take profit 200
C11_Witness ==
    /\ RiskApplied
    /\ probe.df.weighted_avg_price = F(100)
    /\ probe.df.volatility = Rat(1, 2)
    /\ probe.profile.stop_loss = F(50)
    /\ probe.profile.take_profit = F(200)

\* the map the Risk Engine has stored, once it has run
RiskProfiles ==
    IF "crypto_risk_manager" \in DOMAIN data.analyst_signals
    THEN data.analyst_signals["crypto_risk_manager"] ELSE << >>

\* C12: every stored RiskProfile (here: of a history long enough for a
\* volatility) has stop_loss > 0, take_profit > 0, position_limit >= 0 and
\* current_price >= 0, whatever price the market-data collaborator reports.
C12_ProfileInvariants ==
    \A s \in DOMAIN RiskProfiles :
        market[s].history.closes >= 3
            => /\ FGt(RiskProfiles[s].stop_loss, F(0))
               /\ FGt(RiskProfiles[s].take_profit, F(0))
               /\ FLe(F(0), RiskProfiles[s].position_limit)
               /\ FLe(F(0), RiskProfiles[s].current_price)

TechnicalRan == "crypto_technical_agent" \in Range(trace)

EmptyTimeframes(s) == {tf \in Range(timeframes) : market[s].empty[tf]}

\* C13: when no symbol has more than one empty timeframe, the Signal Engine
\* does not fail, and a symbol with exactly one empty timeframe (the primary
\* one included) gets a signal whose timeframes list is the other two.
C13_OneEmptyTimeframeSkipped ==
    (/\ TechnicalRan
     /\ \A s \in Range(data.symbols) : Cardinality(EmptyTimeframes(s)) <= 1)
        => \A s \in Range(data.symbols) :
             Cardinality(EmptyTimeframes(s)) = 1
                => /\ HasEntry(data.analyst_signals, "crypto_technical_agent", s)
                   /\ data.analyst_signals["crypto_technical_agent"][s].timeframes
                        = SelectSeq(timeframes, LAMBDA tf : tf \notin EmptyTimeframes(s))

RiskRan == "crypto_risk_manager" \in Range(trace)

\* C14: whatever series are empty, no stage aborts the run, and once the
\* Risk Engine has run exactly the symbols with a non-empty history have an
\* entry in its map.
C14_DataFailureNeverAborts ==
    /\ pc # "raised"
    /\ RiskRan => DOMAIN RiskProfiles
                    = {s \in Range(data.symbols) : market[s].history.closes # 0}

\* C15: a symbol whose price history has fewer than 2 closes is left out of
\* the crypto_risk_manager map.
C15_ShortHistoryHasNoProfile ==
    RiskRan => \A s \in Range(data.symbols) :
                 market[s].history.closes < 2 => s \notin DOMAIN RiskProfiles

SignalApplied == probe.op = "signal" /\ ~probe.raised

BollingerPosition(row) ==
    IF FLt(row.close, row.bb_lower) THEN "Oversold"
    ELSE IF FGt(row.close, row.bb_upper) THEN "Overbought"
    ELSE "Normal"

\* C16: a timeframe is classified oversold when its latest close is below
\* the lower Bollinger band, overbought when it is above the upper band and
\* normal otherwise.
C16_BollingerByClose ==
    SignalApplied
        => \A tf \in Range(probe.tfs) :
             probe.timeframe_analysis[tf].bb_position = BollingerPosition(probe.signals[tf])

StrengthMapped == probe.op = "final" \/ SignalApplied

\* C17: a strength above 0.2 gives bullish with confidence
\* min(100, 50*strength + 50), one below -0.2 gives bearish with confidence
\* min(100, -50*strength + 50), any strength in [-0.2, 0.2] gives neutral
\* with confidence 50, and the confidence always lies in [0, 100].
C17_ThresholdMapping ==
    StrengthMapped
        => LET n == probe.signal_strength.num
               d == probe.signal_strength.den
               r == probe.result
           IN  /\ (5 * n > d)
                    => /\ r.signal = "bullish"
                       /\ r.confidence = IF n >= d THEN F(100) ELSE Rat(50 * n + 50 * d, d)
               /\ (5 * n < -d)
                    => /\ r.signal = "bearish"
                       /\ r.confidence = IF -n >= d THEN F(100) ELSE Rat(50 * d - 50 * n, d)
               /\ (-d <= 5 * n /\ 5 * n <= d)
                    => r.signal = "neutral" /\ r.confidence = F(50)
               /\ FLe(F(0), r.confidence) /\ FLe(r.confidence, F(100))

\* the inclusive end of the neutral band
C17_Witness ==
    /\ probe.op = "final"
    /\ probe.signal_strength = Rat(1, 5)
    /\ probe.result.signal = "neutral"
    /\ probe.result.confidence = F(50)

\* twice the weight of a timeframe: 2 for the primary one, 1 for any other
DoubledWeight(tf) == IF tf = primary_timeframe THEN 2 ELSE 1

\* bullish minus bearish votes of one indicator row, RSI and MACD only
NetVotes(row) ==
    (IF FLt(row.rsi, F(30)) THEN 1 ELSE IF FGt(row.rsi, F(70)) THEN -1 ELSE 0)
    + (IF FGt(row.macd, row.macd_signal) THEN 1 ELSE -1)

RECURSIVE DoubledNet(_, _)
DoubledNet(tfs, signals) ==
    IF tfs = << >> THEN 0
    ELSE DoubledWeight(Head(tfs)) * NetVotes(signals[Head(tfs)])
         + DoubledNet(Tail(tfs), signals)

RECURSIVE DoubledTotal(_)
DoubledTotal(tfs) ==
    IF tfs = << >> THEN 0 ELSE DoubledWeight(Head(tfs)) + DoubledTotal(Tail(tfs))

\* C18: signal_strength is (bullish - bearish) / total_weight with weight 1.0
\* for the primary timeframe and 0.5 for any other analysed one, total_weight
\* the sum over the analysed timeframes only, RSI < 30 voting bullish,
\* RSI > 70 bearish, MACD above its signal line bullish and otherwise
\* (equality included) bearish.
C18_WeightedStrength ==
    SignalApplied
        => /\ probe.scores.total_weight = Rat(DoubledTotal(probe.tfs), 2)
           /\ probe.signal_strength
                = FDiv(FSub(probe.scores.bullish, probe.scores.bearish),
                       probe.scores.total_weight)
           /\ probe.signal_strength
                = Rat(DoubledNet(probe.tfs, probe.signals), DoubledTotal(probe.tfs))

\* 1h: RSI 25 and MACD equal to its signal line cancel; 4h: RSI 75 and MACD
\* below its signal line give -2 * 0.5; 1d was empty, so total_weight is 1.5
C18_Witness ==
    /\ SignalApplied
    /\ probe.tfs = <<"1h", "4h">>
    /\ probe.signals["1h"].rsi = F(25)
    /\ probe.signals["1h"].macd = probe.signals["1h"].macd_signal
    /\ probe.signals["4h"].rsi = F(75)
    /\ probe.signals["4h"].macd = F(0)
    /\ probe.scores.total_weight = Rat(3, 2)
    /\ probe.signal_strength = Rat(-2, 3)

\* cash plus every held position at its entry price; the drawn portfolios
\* hold whole amounts at whole prices
EntryValue(portfolio) ==
    portfolio.cash.num
    + portfolio.positions["BTCUSDT"].amount.num * portfolio.positions["BTCUSDT"].avg_price.num
    + portfolio.positions["ETHUSDT"].amount.num * portfolio.positions["ETHUSDT"].avg_price.num

\* C19: position_limit = (cash + sum of amount * avg_price) * 0.02 /
\* (volatility + 0.0001) with no upper clamp, which is total_value * 200 at
\* volatility 0, whatever the current market price is.
C19_PositionLimitFormula ==
    RiskApplied
        => LET total == EntryValue(probe.portfolio)
               vol == probe.df.volatility
           IN  /\ probe.profile.position_limit
                    = Rat(200 * total * vol.den, 10000 * vol.num + vol.den)
               /\ vol = F(0) => probe.profile.position_limit = F(200 * total)

\* volatility 0 with 10000 cash, 2 BTC bought at 50 and 1 ETH bought at 30:
\* the limit is 200 times the portfolio's value although the market price is 1
C19_Witness ==
    /\ RiskApplied
    /\ probe.df.volatility = F(0)
    /\ probe.df.weighted_avg_price = F(1)
    /\ EntryValue(probe.portfolio) = 10130
    /\ probe.profile.position_limit = F(2026000)

AggregatorRan == "portfolio_management_agent" \in Range(trace)

\* C20: when no history consists of a single close, preparing the request
\* never raises, and every symbol with a signal and a risk entry gets
\* max_shares = floor(position_limit / current_price) for a positive price
\* and 0 otherwise, so that max_shares * current_price <= position_limit.
C20_MaxSharesFloor ==
    (/\ AggregatorRan
     /\ \A s \in Range(data.symbols) : market[s].history.closes # 1)
        => /\ ~request.raised
           /\ DOMAIN request.max_shares = Covered(data)
           /\ \A s \in Covered(data) :
                LET risk == RiskProfiles[s]
                    limit == risk.position_limit
                    price == risk.current_price
                    shares == request.max_shares[s]
                IN  IF FGt(price, F(0))
                    THEN /\ shares * price.num * limit.den <= limit.num * price.den
                         /\ (shares + 1) * price.num * limit.den > limit.num * price.den
                    ELSE shares = 0

\* the requested symbols for which both engines stored an entry
WithSignalAndRisk ==
    {s \in Range(data.symbols) :
        /\ "crypto_technical_agent" \in DOMAIN data.analyst_signals
        /\ s \in DOMAIN data.analyst_signals["crypto_technical_agent"]
        /\ s \in DOMAIN RiskProfiles}

RequestBuilt == AggregatorRan /\ ~request.raised

\* C21: in the request built for the decision backend signals_by_ticker,
\* current_prices and max_shares have the same key set, the requested symbols
\* with both a technical signal and a risk entry (those whose price history
\* was not empty); a symbol left out is still a ticker of the fallback default.
C21_RequestKeySets ==
    RequestBuilt
        => /\ DOMAIN request.signals_by_ticker = WithSignalAndRisk
           /\ DOMAIN request.current_prices = WithSignalAndRisk
           /\ DOMAIN request.max_shares = WithSignalAndRisk
           /\ WithSignalAndRisk
                = {s \in Range(data.symbols) : market[s].history.closes # 0}
           /\ (pc = "END" /\ llm.outcome # "model")
                => DOMAIN data.decisions = Range(data.symbols)

\* BTCUSDT has no price history and is left out of the request, ETHUSDT is in
\* it; the backend fails and the default still covers both
C21_Witness ==
    /\ RequestBuilt
    /\ pc = "END"
    /\ data.symbols = <<"BTCUSDT", "ETHUSDT">>
    /\ DOMAIN request.signals_by_ticker = {"ETHUSDT"}
    /\ DOMAIN request.max_shares = {"ETHUSDT"}
    /\ llm.outcome = "inner_except"
    /\ DOMAIN data.decisions = {"BTCUSDT", "ETHUSDT"}

LlmApplied == probe.op = "llm"

\* the drawn answer is one of the four failures: the model cannot be built,
\* invoke raises, the content is no JSON, or the JSON does not validate
ProbeStepFails ==
    \/ probe.step.kind \in {"init_error", "no_model"}
    \/ probe.step.kind = "invoke_error"
    \/ ~ParseContent(probe.step, probe.is_deepseek).ok
    \/ probe.step.value.json # "decisions"
    \/ \E k \in DOMAIN probe.step.value.decisions :
         \/ probe.step.value.decisions[k].action \notin Actions
         \/ probe.step.value.decisions[k].quantity.nan
         \/ probe.step.value.decisions[k].quantity.den # 1

\* C22: without a default factory every backend failure passes through an
\* except clause, which logs it, and is re-raised; no value is returned.
C22_NoFactoryReRaises ==
    (LlmApplied /\ ~probe.default_factory.present /\ ProbeStepFails)
        => /\ probe.result.raised
           /\ probe.result.outcome \in {"inner_except", "outer_except"}
           /\ probe.result.value = << >>

\* a reply that parses but names an action outside the schema, no factory
C22_Witness ==
    /\ LlmApplied
    /\ ~probe.default_factory.present
    /\ probe.step.kind = "reply"
    /\ probe.step.wrap = "plain"
    /\ probe.step.value.json = "decisions"
    /\ \E k \in DOMAIN probe.step.value.decisions :
         probe.step.value.decisions[k].action = "liquidate"
    /\ probe.result.raised
    /\ probe.result.outcome = "inner_except"

====
